---- MODULE Spec2Model ----
(***************************************************************************)
(* SimplemattableComponent: dirty checking, data source rebuilding and the *)
(* inline edit/add state machine of the table component, together with the *)
(* init/apply hooks of AbstractFormField.                                  *)
(*                                                                         *)
(* JavaScript values are modelled as follows.  Objects (rows of data) are  *)
(* identities (integers) into `heap`, which holds their property values.   *)
(* Strings are sequences of one-character strings.  A Map is the sequence  *)
(* of its entries in insertion order.  A column descriptor is a function   *)
(* from the own keys it has to their values, every value being a string,   *)
(* and a key it does not have reads as "undefined".                        *)
(***************************************************************************)
EXTENDS Integers, Sequences, FiniteSets, TLC

VARIABLES
  data,              \* @Input data: the array of row objects (shared with the host)
  columns,           \* @Input columns: array of column descriptors (shared with the host)
  addable,           \* @Input addable
  editable,          \* @Input editable
  deletable,         \* @Input deletable
  create,            \* @Input create: TRUE iff a create function was supplied
  displayedColumns,  \* ids of the rendered columns
  currentlyAdding,
  dataStatus,        \* Map<T, DataStatus>
  oldColumns,        \* copies of the columns at the last detected change
  formControls,      \* Map<string, AbstractControl>
  matSort,           \* the MatSort view child: active header id and direction
  heap,              \* property values of every object
  hostData,          \* history: the elements of the array the host last bound to data
  checkedColumns,    \* history: the columns as they were at the last ngDoCheck
  op                 \* history: the last operation, its arguments and its outcome

compVars == <<data, columns, addable, editable, deletable, create, displayedColumns,
              currentlyAdding, dataStatus, oldColumns, formControls, matSort>>
vars == <<data, columns, addable, editable, deletable, create, displayedColumns,
          currentlyAdding, dataStatus, oldColumns, formControls, matSort, heap,
          hostData, checkedColumns, op>>

---------------------------------------------------------------------------
(* Bounds of the model *)

MaxVal == 1        \* property and control values range over 0..MaxVal
BigRow == 10       \* the largest row index of the large host array
NumSmall == 3      \* host objects used by the small host arrays
NumFresh == 2      \* objects that create() and deepCopy() may allocate
MaxControls == 2   \* form controls alive at the same time

Vals == 0..MaxVal
Props == {"a", "b"}
NumHost == BigRow + 1
HostIds == 1..NumHost
FreshIds == (NumHost + 1)..(NumHost + NumFresh)
ObjIds == HostIds \cup FreshIds
NoObj == 0

---------------------------------------------------------------------------
(* Sequences, strings and Maps *)

Range(s) == {s[i] : i \in 1..Len(s)}

Min(S) == CHOOSE x \in S : \A y \in S : x <= y

\* Array.prototype.indexOf: zero-based, -1 when absent
IndexOf(arr, x) ==
  IF \E i \in 1..Len(arr) : arr[i] = x
  THEN Min({i \in 1..Len(arr) : arr[i] = x}) - 1
  ELSE -1

\* Array.prototype.splice(start, 1): a negative start counts from the end
Splice1(arr, start) ==
  LET n == Len(arr)
      s == IF start < 0 THEN (IF n + start < 0 THEN 0 ELSE n + start)
           ELSE (IF start > n THEN n ELSE start)
  IN IF s >= n THEN arr
     ELSE SubSeq(arr, 1, s) \o SubSeq(arr, s + 2, n)

Digit(d) == CASE d = 0 -> "0" [] d = 1 -> "1" [] d = 2 -> "2" [] d = 3 -> "3"
              [] d = 4 -> "4" [] d = 5 -> "5" [] d = 6 -> "6" [] d = 7 -> "7"
              [] d = 8 -> "8" [] d = 9 -> "9"

DigitVal(c) == CASE c = "0" -> 0 [] c = "1" -> 1 [] c = "2" -> 2 [] c = "3" -> 3
                 [] c = "4" -> 4 [] c = "5" -> 5 [] c = "6" -> 6 [] c = "7" -> 7
                 [] c = "8" -> 8 [] c = "9" -> 9

\* Number.prototype.toString of a non-negative integer
RECURSIVE NumToString(_)
NumToString(n) ==
  IF n < 10 THEN <<Digit(n)>> ELSE NumToString(n \div 10) \o <<Digit(n % 10)>>

\* unary plus on a string of decimal digits
RECURSIVE ToNumber(_)
ToNumber(s) ==
  IF s = <<>> THEN 0
  ELSE 10 * ToNumber(SubSeq(s, 1, Len(s) - 1)) + DigitVal(s[Len(s)])

\* String.prototype.startsWith
StartsWith(s, p) == Len(p) <= Len(s) /\ SubSeq(s, 1, Len(p)) = p

\* String.prototype.split('_')
RECURSIVE SplitUnderscore(_)
SplitUnderscore(s) ==
  IF \E i \in 1..Len(s) : s[i] = "_"
  THEN LET i == Min({j \in 1..Len(s) : s[j] = "_"})
       IN <<SubSeq(s, 1, i - 1)>> \o SplitUnderscore(SubSeq(s, i + 1, Len(s)))
  ELSE <<s>>

\* Map.prototype.has / get / set / delete on a sequence of <<key, value>> entries
MapKeys(m) == {m[i][1] : i \in 1..Len(m)}
MapHas(m, k) == \E i \in 1..Len(m) : m[i][1] = k
MapGet(m, k) == m[CHOOSE i \in 1..Len(m) : m[i][1] = k][2]
MapSet(m, k, v) ==
  IF MapHas(m, k)
  THEN [i \in 1..Len(m) |-> IF m[i][1] = k THEN <<k, v>> ELSE m[i]]
  ELSE Append(m, <<k, v>>)
MapDelete(m, k) == SelectSeq(m, LAMBDA e : e[1] # k)

---------------------------------------------------------------------------
(* Configuration objects produced by the host                              *)

ColKeys == {"property", "visible", "button", "onClick", "formField"}

\* col[key]: a key the object does not have reads as undefined
Get(col, k) == IF k \in DOMAIN col THEN col[k] ELSE "undefined"

\* JavaScript truthiness of a column property
Truthy(v) == v \notin {"undefined", "false", ""}

\* The form fields of the model: which of init / apply were set with
\* withInit / withApply
HasInit(ff) == ff \in {"ffInit", "ffBoth"}
HasApply(ff) == ff \in {"ffApply", "ffBoth"}

\* The host's init function: model value -> form value
InitFn(v, element) == (v + 1) % (MaxVal + 1)

\* The host's apply function: form value, old model value -> model value
ApplyFn(val, old, element) == (val + old) % (MaxVal + 1)

\* The host's validators of a form field: the form value must not be 0
Validator(v) == v # 0

\* new DataStatus()
NewDataStatus == [editing |-> FALSE, added |-> FALSE]

\* The values of the objects the host owns, and of an object create() returns
HostValue(i) == [a |-> i % (MaxVal + 1), b |-> (i \div 2) % (MaxVal + 1)]
CreatedValue == [a |-> 0, b |-> 0]

\* The smallest unused object identity, NoObj if none is left
Alloc(used) == IF FreshIds \subseteq used THEN NoObj ELSE Min(FreshIds \ used)

\* Objects nothing refers to any more hold no values
Collect(h, live) ==
  [o \in ObjIds |-> IF o \in HostIds THEN h[o] ELSE IF o \in live THEN h[o] ELSE CreatedValue]

---------------------------------------------------------------------------
(* Small methods of the component                                          *)

getDisplayedCols(cols) == SelectSeq(cols, LAMBDA col : Truthy(Get(col, "visible")))

isButtonClickable(tcol) == Truthy(Get(tcol, "onClick")) /\ Truthy(Get(tcol, "button"))

\* dataStatus.get(element).editing throws when the element has no status
isEditingThrows(element) == ~MapHas(dataStatus, element)
isEditing(element) == MapGet(dataStatus, element).editing

isCellClickable_NoEditCheck(tcol, element) ==
  Truthy(Get(tcol, "onClick")) /\ ~Truthy(Get(tcol, "button"))

isCellClickable(tcol, element) ==
  Truthy(Get(tcol, "onClick")) /\ ~Truthy(Get(tcol, "button")) /\ ~isEditing(element)

\* isCellClickable evaluates isEditing only when the first two conjuncts hold
isCellClickableThrows(tcol, element) ==
  Truthy(Get(tcol, "onClick")) /\ ~Truthy(Get(tcol, "button")) /\ isEditingThrows(element)

ngOnInitThrows_AddableOnly == addable

ngOnInitThrows == addable /\ ~create

\* The id of a form control: rowIndex + '_' + colIndex
ControlId(rowIndex, colIndex) == NumToString(rowIndex) \o <<"_">> \o NumToString(colIndex)

\* deepCopy of a row object: a new object with the same property values
deepCopy_NoCopy(obj, used) == obj

deepCopy(obj, used) == Alloc(used)

---------------------------------------------------------------------------
(* Dirty checking and data source rebuilding                               *)

ActionsId == <<"a", "c", "t", "i", "o", "n", "s">>

\* recreateDataSource: the value it gives displayedColumns
recreateDataSource(cols, ed, ad, del) ==
  LET dcols == getDisplayedCols(cols)
      ids == [i \in 1..Len(dcols) |->
                NumToString(i - 1) \o <<"_">> \o <<Get(dcols[i], "property")>>]
  IN IF ed \/ ad \/ del THEN Append(ids, ActionsId) ELSE ids

\* sortingDataAccessor, which recreateDataSource installs on a table with
\* sorting enabled (no sortTransform, numeric properties): -1 stands for the
\* empty string of a missing column
IsDigits(s) == s # <<>> /\ \A i \in 1..Len(s) : s[i] \in {Digit(d) : d \in 0..9}
sortingDataAccessor(obj, sortHeaderId, visibleCols, h) ==
  LET seg == SplitUnderscore(sortHeaderId)[1]
  IN IF IsDigits(seg) /\ ToNumber(seg) < Len(visibleCols)
        /\ Get(visibleCols[ToNumber(seg) + 1], "property") \in Props
     THEN h[obj][Get(visibleCols[ToNumber(seg) + 1], "property")]
     ELSE -1

\* MatTableDataSource.sortData as cleanUpAfterDataChange calls it: on the
\* array itself, which is the host's data array; a stable sort by the accessor
RECURSIVE InsertSorted(_, _, _, _)
InsertSorted(arr, x, key, asc) ==
  IF arr = <<>> THEN <<x>>
  ELSE IF (asc /\ key[x] < key[Head(arr)]) \/ (~asc /\ key[x] > key[Head(arr)])
       THEN <<x>> \o arr
       ELSE <<Head(arr)>> \o InsertSorted(Tail(arr), x, key, asc)

RECURSIVE SortLoop(_, _, _, _)
SortLoop(done, rest, key, asc) ==
  IF rest = <<>> THEN done
  ELSE SortLoop(InsertSorted(done, Head(rest), key, asc), Tail(rest), key, asc)

sortData(d, ms, cols, h) ==
  IF ms.active = <<>> \/ ms.direction = "" THEN d
  ELSE LET key == [o \in Range(d) |->
                     sortingDataAccessor(o, ms.active, getDisplayedCols(cols), h)]
       IN SortLoop(<<>>, d, key, ms.direction = "asc")

NoSort == [active |-> <<>>, direction |-> ""]

turnOffSorting(ms) == IF ms.active # <<>> THEN NoSort ELSE ms

\* clearAddedEntry: the loop over dataStatus, then the delete of the last
\* key found.  Gives the new data and dataStatus.
RECURSIVE clearAddedLoop(_, _, _, _)
clearAddedLoop(d, ds, i, toDelete) ==
  IF i > Len(ds) THEN [data |-> d, toDelete |-> toDelete]
  ELSE IF ds[i][2].added
       THEN clearAddedLoop(Splice1(d, IndexOf(d, ds[i][1])), ds, i + 1, ds[i][1])
       ELSE clearAddedLoop(d, ds, i + 1, toDelete)

clearAddedEntry(d, ds) ==
  LET r == clearAddedLoop(d, ds, 1, NoObj)
  IN [data |-> r.data,
      dataStatus |-> IF r.toDelete # NoObj THEN MapDelete(ds, r.toDelete) ELSE ds]

\* this.data.forEach(data => this.dataStatus.set(data, new DataStatus()))
RECURSIVE setAllStatus(_, _)
setAllStatus(d, ds) ==
  IF d = <<>> THEN ds ELSE setAllStatus(Tail(d), MapSet(ds, Head(d), NewDataStatus))

cleanUpAfterDataChange_KeepControls(d, cols, ms, fc, h, columnChanges) ==
  [dataStatus |-> setAllStatus(d, <<>>),
   formControls |-> fc,
   matSort |-> IF ms.active # <<>> /\ columnChanges THEN turnOffSorting(ms) ELSE ms,
   data |-> IF ms.active # <<>> /\ ~columnChanges THEN sortData(d, ms, cols, h) ELSE d,
   currentlyAdding |-> FALSE]

cleanUpAfterDataChange_ClearOnly(d, cols, ms, fc, h, columnChanges) ==
  [dataStatus |-> <<>>,
   formControls |-> <<>>,
   matSort |-> IF ms.active # <<>> /\ columnChanges THEN turnOffSorting(ms) ELSE ms,
   data |-> IF ms.active # <<>> /\ ~columnChanges THEN sortData(d, ms, cols, h) ELSE d,
   currentlyAdding |-> FALSE]

\* cleanUpAfterDataChange: the new dataStatus, formControls, matSort, data
\* (sorted in place when a sort is active) and currentlyAdding
cleanUpAfterDataChange(d, cols, ms, fc, h, columnChanges) ==
  [dataStatus |-> setAllStatus(d, <<>>),
   formControls |-> <<>>,
   matSort |-> IF ms.active # <<>> /\ columnChanges THEN turnOffSorting(ms) ELSE ms,
   data |-> IF ms.active # <<>> /\ ~columnChanges THEN sortData(d, ms, cols, h) ELSE d,
   currentlyAdding |-> FALSE]

\* checkForDifferences: for..in runs over the own keys of the old copy
checkForDifferences(old, cols) ==
  IF Len(old) # Len(cols) THEN TRUE
  ELSE \E i \in 1..Len(old) : \E key \in DOMAIN old[i] : old[i][key] # Get(cols[i], key)

\* cleanUpAfterColChange: every key of dataStatus gets a new DataStatus
cleanUpAfterColChange(ds) == [i \in 1..Len(ds) |-> <<ds[i][1], NewDataStatus>>]

---------------------------------------------------------------------------
(* Form controls and saving                                                *)

\* A new AbstractControl: an identity no stored control has
NewCid(fc) == Min((1..(Len(fc) + 1)) \ {fc[i][2].cid : i \in 1..Len(fc)})

\* fb.control(...) of getFormControl: no validators are passed
NewControl(fc, tcol, element, h) ==
  [cid |-> NewCid(fc),
   value |-> IF HasInit(Get(tcol, "formField"))
             THEN InitFn(h[element][Get(tcol, "property")], element)
             ELSE h[element][Get(tcol, "property")],
   valid |-> TRUE]

getFormControlMap_AlwaysCreate(fc, rowIndex, colIndex, tcol, element, h) ==
  MapSet(fc, ControlId(rowIndex, colIndex), NewControl(fc, tcol, element, h))

\* getFormControl: formControls after the call; the control returned is the
\* one stored under the id
getFormControlMap(fc, rowIndex, colIndex, tcol, element, h) ==
  IF MapHas(fc, ControlId(rowIndex, colIndex)) THEN fc
  ELSE MapSet(fc, ControlId(rowIndex, colIndex), NewControl(fc, tcol, element, h))

\* saveElement: the controls it takes to be those of the row, with their
\* column index
rowControls(fc, rowIndex) ==
  LET mine == SelectSeq(fc, LAMBDA entry : StartsWith(entry[1], NumToString(rowIndex)))
  IN [i \in 1..Len(mine) |->
        [id |-> mine[i][1],
         col |-> ToNumber(SplitUnderscore(mine[i][1])[2]),
         control |-> mine[i][2]]]

\* controls.forEach(...) of saveElement: the values written into the copy
RECURSIVE applyControls(_, _, _)
applyControls(rec, ctrls, dcols) ==
  IF ctrls = <<>> THEN rec
  ELSE LET tcol == dcols[Head(ctrls).col + 1]
           prop == Get(tcol, "property")
           val == Head(ctrls).control.value
           new == IF HasApply(Get(tcol, "formField"))
                  THEN ApplyFn(val, rec[prop], rec)
                  ELSE val
       IN applyControls([rec EXCEPT ![prop] = new], Tail(ctrls), dcols)

\* tcol.property / tcol.formField.apply throw on a missing column or form field
applyControlsThrows(ctrls, dcols) ==
  \E i \in 1..Len(ctrls) :
     \/ ctrls[i].col >= Len(dcols)
     \/ ~Truthy(Get(dcols[ctrls[i].col + 1], "formField"))
     \/ Get(dcols[ctrls[i].col + 1], "property") \notin Props

---------------------------------------------------------------------------
(* History variable op                                                     *)

NoOp(name) ==
  [name |-> name, threw |-> FALSE, fired |-> FALSE, fromButton |-> FALSE,
   row |-> -1, col |-> -1, obj |-> NoObj, ctl |-> 0, emitted |-> NoObj, kind |-> "",
   ids |-> {}, dataChange |-> FALSE, detected |-> FALSE, colsChanged |-> FALSE,
   preAdding |-> FALSE, preEditing |-> FALSE, preControls |-> FALSE]

Live(d, ds, o) == Range(d) \cup MapKeys(ds) \cup {o.obj, o.emitted}

PreOf(name) ==
  [NoOp(name) EXCEPT !.preAdding = currentlyAdding,
                     !.preEditing = \E i \in 1..Len(dataStatus) : dataStatus[i][2].editing,
                     !.preControls = formControls # <<>>]

---------------------------------------------------------------------------
(* Operations of the component                                             *)

ngOnInit ==
  /\ op' = [NoOp("ngOnInit") EXCEPT !.threw = ngOnInitThrows]
  /\ UNCHANGED <<compVars, heap, hostData, checkedColumns>>

\* Angular assigns the changed inputs, then calls ngOnChanges(changes)
ngOnChanges(changesData, newData, changesColumns, newColumns) ==
  LET cols == IF changesColumns THEN newColumns ELSE columns
      d0 == IF changesData THEN newData ELSE data
      c == clearAddedEntry(d0, dataStatus)
      cl == cleanUpAfterDataChange(c.data, cols, matSort, formControls, heap, changesColumns)
  IN /\ changesData \/ changesColumns
     /\ columns' = cols
     /\ IF changesData
        THEN /\ data' = cl.data
             /\ displayedColumns' = recreateDataSource(cols, editable, addable, deletable)
             /\ dataStatus' = cl.dataStatus
             /\ formControls' = cl.formControls
             /\ matSort' = cl.matSort
             /\ currentlyAdding' = cl.currentlyAdding
             /\ hostData' = Range(newData)
        ELSE UNCHANGED <<data, displayedColumns, dataStatus, formControls, matSort,
                         currentlyAdding, hostData>>
     /\ op' = [PreOf("ngOnChanges") EXCEPT !.dataChange = changesData]
     /\ heap' = Collect(heap, Live(data', dataStatus', op'))
     /\ UNCHANGED <<addable, editable, deletable, create, oldColumns, checkedColumns>>

ngDoCheck ==
  LET c == clearAddedEntry(data, dataStatus)
  IN /\ IF checkForDifferences(oldColumns, columns)
        THEN /\ data' = c.data
             /\ matSort' = turnOffSorting(matSort)
             /\ displayedColumns' = recreateDataSource(columns, editable, addable, deletable)
             /\ dataStatus' = cleanUpAfterColChange(c.dataStatus)
             /\ formControls' = <<>>
             /\ oldColumns' = columns
             /\ currentlyAdding' = FALSE
        ELSE UNCHANGED <<data, matSort, displayedColumns, dataStatus, formControls,
                         oldColumns, currentlyAdding>>
     /\ op' = [NoOp("ngDoCheck") EXCEPT !.detected = checkForDifferences(oldColumns, columns),
                                         !.colsChanged = (columns # checkedColumns)]
     /\ checkedColumns' = columns
     /\ heap' = Collect(heap, Live(data', dataStatus', op'))
     /\ UNCHANGED <<columns, addable, editable, deletable, create, hostData>>


\* the status startAddElement gives the new element
startAddStatus(ds, ele) == MapSet(ds, ele, [editing |-> TRUE, added |-> TRUE])

\* The add button: currentlyAdding is read by the template alone, which
\* offers the button while no element is being added
startAddElement ==
  LET ele == Alloc(Range(data) \cup MapKeys(dataStatus))
      cl == cleanUpAfterDataChange(<<ele>> \o data, columns, matSort, formControls,
                                   [heap EXCEPT ![ele] = CreatedValue], FALSE)
  IN IF ~create
     THEN \* this.create is not a function
          /\ ~currentlyAdding
          /\ op' = [NoOp("startAddElement") EXCEPT !.threw = TRUE]
          /\ UNCHANGED <<compVars, heap, hostData, checkedColumns>>
     ELSE /\ ~currentlyAdding
          /\ ele # NoObj
          /\ data' = cl.data
          /\ displayedColumns' = recreateDataSource(columns, editable, addable, deletable)
          /\ dataStatus' = startAddStatus(cl.dataStatus, ele)
          /\ formControls' = cl.formControls
          /\ matSort' = cl.matSort
          /\ currentlyAdding' = TRUE
          /\ op' = [NoOp("startAddElement") EXCEPT !.obj = ele]
          /\ heap' = Collect([heap EXCEPT ![ele] = CreatedValue],
                             Live(data', dataStatus', op'))
          /\ UNCHANGED <<columns, addable, editable, deletable, create, oldColumns, hostData, checkedColumns>>

startEditElement(element) ==
  LET status == IF MapHas(dataStatus, element) THEN MapGet(dataStatus, element)
                ELSE NewDataStatus
  IN /\ dataStatus' = MapSet(dataStatus, element, [status EXCEPT !.editing = TRUE])
     /\ op' = NoOp("startEditElement")
     /\ heap' = Collect(heap, Live(data, dataStatus', op'))
     /\ UNCHANGED <<data, columns, addable, editable, deletable, create, displayedColumns,
                    currentlyAdding, oldColumns, formControls, matSort, hostData, checkedColumns>>

cancelEditElement(element) ==
  /\ IF MapHas(dataStatus, element)
     THEN /\ dataStatus' = MapSet(dataStatus, element,
                                  [MapGet(dataStatus, element) EXCEPT !.editing = FALSE])
          /\ op' = NoOp("cancelEditElement")
     ELSE /\ dataStatus' = dataStatus
          /\ op' = [NoOp("cancelEditElement") EXCEPT !.threw = TRUE]
  /\ heap' = Collect(heap, Live(data, dataStatus', op'))
  /\ UNCHANGED <<data, columns, addable, editable, deletable, create, displayedColumns,
                 currentlyAdding, oldColumns, formControls, matSort, hostData, checkedColumns>>

\* the template asks for the control of a rendered cell of a form column
getFormControl(rowIndex, colIndex) ==
  LET dcols == getDisplayedCols(columns)
      tcol == dcols[colIndex + 1]
      element == data[rowIndex + 1]
      id == ControlId(rowIndex, colIndex)
  IN /\ rowIndex < Len(data)
     /\ colIndex < Len(dcols)
     /\ Truthy(Get(tcol, "formField"))
     /\ Get(tcol, "property") \in Props
     /\ MapHas(formControls, id) \/ Len(formControls) < MaxControls
     /\ formControls' = getFormControlMap(formControls, rowIndex, colIndex, tcol, element, heap)
     /\ op' = [NoOp("getFormControl") EXCEPT !.row = rowIndex, !.col = colIndex,
                  !.obj = element, !.ctl = MapGet(formControls', id).cid,
                  !.preControls = MapHas(formControls, id)]
     /\ heap' = Collect(heap, Live(data, dataStatus, op'))
     /\ UNCHANGED <<data, columns, addable, editable, deletable, create, displayedColumns,
                    currentlyAdding, dataStatus, oldColumns, matSort, hostData, checkedColumns>>

\* the user types into the form field bound to a control; the validators
\* of the form field (the form value must not be 0) decide its validity
setControlValue(i, v) ==
  /\ i \in 1..Len(formControls)
  /\ formControls' = [formControls EXCEPT ![i][2].value = v, ![i][2].valid = Validator(v)]
  /\ formControls' # formControls
  /\ op' = NoOp("setControlValue")
  /\ heap' = Collect(heap, Live(data, dataStatus, op'))
  /\ UNCHANGED <<data, columns, addable, editable, deletable, create, displayedColumns,
                 currentlyAdding, dataStatus, oldColumns, matSort, hostData, checkedColumns>>

saveElement(rowIndex) ==
  LET oldElement == data[rowIndex + 1]
      controls == rowControls(formControls, rowIndex)
      dcols == getDisplayedCols(columns)
      element == deepCopy(oldElement, Range(data) \cup MapKeys(dataStatus))
      base == [NoOp("saveElement") EXCEPT !.row = rowIndex, !.obj = oldElement,
                  !.ids = {controls[i].id : i \in 1..Len(controls)}]
  IN /\ rowIndex < Len(data)
     /\ Alloc(Range(data) \cup MapKeys(dataStatus)) # NoObj
     /\ IF \E i \in 1..Len(controls) : ~controls[i].control.valid
        THEN /\ op' = base
             /\ UNCHANGED <<data, currentlyAdding>>
             /\ heap' = Collect(heap, Live(data, dataStatus, op'))
        ELSE IF applyControlsThrows(controls, dcols) \/ ~MapHas(dataStatus, oldElement)
        THEN /\ op' = [base EXCEPT !.threw = TRUE]
             /\ UNCHANGED <<data, currentlyAdding>>
             /\ heap' = Collect(heap, Live(data, dataStatus, op'))
        ELSE /\ IF MapGet(dataStatus, oldElement).added
                THEN /\ currentlyAdding' = FALSE
                     /\ data' = Tail(data)
                     /\ op' = [base EXCEPT !.emitted = element, !.kind = "add"]
                ELSE /\ UNCHANGED <<data, currentlyAdding>>
                     /\ op' = [base EXCEPT !.emitted = element, !.kind = "edit"]
             /\ heap' = Collect([heap EXCEPT ![element] =
                                    applyControls(heap[oldElement], controls, dcols)],
                                Live(data', dataStatus, op'))
     /\ UNCHANGED <<columns, addable, editable, deletable, create, displayedColumns,
                    dataStatus, oldColumns, formControls, matSort, hostData, checkedColumns>>

onClick(colIndex, element, fromButton) ==
  LET tcol == getDisplayedCols(columns)[colIndex + 1]
  IN /\ colIndex < Len(getDisplayedCols(columns))
     /\ op' = [NoOp("onClick") EXCEPT
                 !.col = colIndex, !.obj = element, !.fromButton = fromButton,
                 !.threw = ~fromButton /\ isCellClickableThrows(tcol, element),
                 !.fired = IF fromButton THEN isButtonClickable(tcol)
                           ELSE ~isCellClickableThrows(tcol, element)
                                /\ isCellClickable(tcol, element)]
     /\ heap' = Collect(heap, Live(data, dataStatus, op'))
     /\ UNCHANGED <<compVars, hostData, checkedColumns>>

\* the user clicks a sort header: MatSort takes the header id and a direction
sortChange(i, direction) ==
  /\ i \in 1..Len(displayedColumns)
  /\ displayedColumns[i] # ActionsId
  /\ matSort' = [active |-> displayedColumns[i], direction |-> direction]
  /\ matSort' # matSort
  /\ op' = NoOp("sortChange")
  /\ heap' = Collect(heap, Live(data, dataStatus, op'))
  /\ UNCHANGED <<data, columns, addable, editable, deletable, create, displayedColumns,
                 currentlyAdding, dataStatus, oldColumns, formControls, hostData, checkedColumns>>

---------------------------------------------------------------------------
(* The host: it owns the columns array and mutates it in place             *)

\* obj[key] = value
SetKey(col, key, value) ==
  [k \in DOMAIN col \cup {key} |-> IF k = key THEN value ELSE col[k]]

\* A column descriptor with the given own properties; "undefined" leaves
\* the key out
MkCol(property, visible, button, clickFn, formField) ==
  LET all == [k \in ColKeys |->
                CASE k = "property" -> property [] k = "visible" -> visible
                  [] k = "button" -> button [] k = "onClick" -> clickFn
                  [] k = "formField" -> formField]
  IN [k \in {x \in ColKeys : all[x] # "undefined"} |-> all[k]]

hostSetColumnProperty(i, key, value) ==
  /\ i \in 1..Len(columns)
  /\ Get(columns[i], key) # value
  /\ columns' = [columns EXCEPT ![i] = SetKey(columns[i], key, value)]
  /\ op' = NoOp("host")
  /\ heap' = Collect(heap, Live(data, dataStatus, op'))
  /\ UNCHANGED <<data, addable, editable, deletable, create, displayedColumns,
                 currentlyAdding, dataStatus, oldColumns, formControls, matSort, hostData, checkedColumns>>

hostAddColumn(col, max) ==
  /\ Len(columns) < max
  /\ columns' = Append(columns, col)
  /\ op' = NoOp("host")
  /\ heap' = Collect(heap, Live(data, dataStatus, op'))
  /\ UNCHANGED <<data, addable, editable, deletable, create, displayedColumns,
                 currentlyAdding, dataStatus, oldColumns, formControls, matSort, hostData, checkedColumns>>

hostRemoveColumn(i) ==
  /\ i \in 1..Len(columns)
  /\ columns' = Splice1(columns, i - 1)
  /\ op' = NoOp("host")
  /\ heap' = Collect(heap, Live(data, dataStatus, op'))
  /\ UNCHANGED <<data, addable, editable, deletable, create, displayedColumns,
                 currentlyAdding, dataStatus, oldColumns, formControls, matSort, hostData, checkedColumns>>

hostReplaceColumn(i, col) ==
  /\ i \in 1..Len(columns)
  /\ columns[i] # col
  /\ columns' = [columns EXCEPT ![i] = col]
  /\ op' = NoOp("host")
  /\ heap' = Collect(heap, Live(data, dataStatus, op'))
  /\ UNCHANGED <<data, addable, editable, deletable, create, displayedColumns,
                 currentlyAdding, dataStatus, oldColumns, formControls, matSort, hostData, checkedColumns>>

---------------------------------------------------------------------------
(* Inputs and specifications                                               *)

MaxCols == 2       \* columns of the host's array in SpecCols

\* The table of the row and form specifications: a hidden column, a cell
\* column with an init function and a click handler, a column with an apply
\* function, a button column
TableCols ==
  << MkCol("b", "false", "undefined", "undefined", "undefined"),
     MkCol("a", "true", "undefined", "fn", "ffInit"),
     MkCol("b", "true", "undefined", "undefined", "ffApply"),
     MkCol("a", "true", "true", "fn", "undefined") >>

\* Arrays the host binds to data
Ident(n) == [i \in 1..n |-> i]
Reversed(n) == [i \in 1..n |-> n + 1 - i]
SmallArrays == {Ident(NumSmall - 1), Reversed(NumSmall)}
BigArray == Ident(BigRow + 1)

\* Rows the user works on
TouchRows == {0, 1, BigRow}

\* Columns the host builds in SpecCols
SimpleCols ==
  {MkCol(p, v, "undefined", "undefined", "undefined") :
     p \in Props, v \in {"undefined", "true", "false"}}

InitCommon ==
  /\ data = <<>>
  /\ columns = <<>>
  /\ displayedColumns = <<>>
  /\ currentlyAdding = FALSE
  /\ dataStatus = <<>>
  /\ oldColumns = <<>>
  /\ formControls = <<>>
  /\ matSort = NoSort
  /\ heap = [o \in ObjIds |-> IF o \in HostIds THEN HostValue(o) ELSE CreatedValue]
  /\ hostData = {}
  /\ checkedColumns = <<>>
  /\ op = NoOp("constructor")
  /\ deletable = FALSE

\* Rows: binding of small arrays, editing, adding, saving and sorting
Init ==
  /\ InitCommon
  /\ addable = TRUE
  /\ create = TRUE
  /\ editable = TRUE

Next ==
  \/ \E d \in SmallArrays : ngOnChanges(TRUE, d, columns # TableCols, TableCols)
  \/ ngDoCheck
  \/ hostSetColumnProperty(1, "visible", "true")
  \/ startAddElement
  \/ 0 < Len(data) /\ startEditElement(data[1])
  \/ 0 < Len(data) /\ cancelEditElement(data[1])
  \/ getFormControl(0, 0)
  \/ saveElement(0)
  \/ sortChange(1, "desc")

Spec == Init /\ [][Next]_vars

\* Clicks: every configuration of addable / create / editable, cell and
\* button clicks on rows that are or are not being edited
InitClick ==
  /\ InitCommon
  /\ addable \in BOOLEAN
  /\ create \in BOOLEAN
  /\ editable \in BOOLEAN

NextClick ==
  \/ ngOnInit
  \/ ngOnChanges(TRUE, Ident(NumSmall - 1), columns # TableCols, TableCols)
  \/ ngDoCheck
  \/ startAddElement
  \/ \E e \in Range(data) : startEditElement(e)
  \/ \E e \in Range(data) : cancelEditElement(e)
  \/ \E c \in 0..3, e \in Range(data), b \in BOOLEAN : onClick(c, e, b)

SpecClick == InitClick /\ [][NextClick]_vars

\* Forms: the large array, controls of several rows, typing and saving
InitForm ==
  /\ InitCommon
  /\ addable = TRUE
  /\ create = TRUE
  /\ editable = TRUE

NextForm ==
  \/ ngOnChanges(TRUE, BigArray, columns # TableCols, TableCols)
  \/ ngDoCheck
  \/ \E r \in {1, BigRow}, c \in 0..3 : getFormControl(r, c)
  \/ \E i \in 1..MaxControls, v \in Vals : setControlValue(i, v)
  \/ \E r \in TouchRows : saveElement(r)

SpecForm == InitForm /\ [][NextForm]_vars

\* Columns: the host changes the columns array between two checks
InitCols ==
  /\ InitCommon
  /\ addable = FALSE
  /\ create = FALSE
  /\ editable \in BOOLEAN

NextCols ==
  \/ ngOnChanges(TRUE, Ident(NumSmall - 1), FALSE, columns)
  \/ \E col \in SimpleCols : ngOnChanges(FALSE, data, TRUE, <<col>>)
  \/ ngDoCheck
  \/ \E col \in SimpleCols : hostAddColumn(col, MaxCols)
  \/ \E i \in 1..MaxCols : hostRemoveColumn(i)
  \/ \E i \in 1..MaxCols, col \in SimpleCols : hostReplaceColumn(i, col)
  \/ \E i \in 1..MaxCols, p \in Props : hostSetColumnProperty(i, "property", p)
  \/ \E i \in 1..MaxCols, v \in {"true", "false"} : hostSetColumnProperty(i, "visible", v)

SpecCols == InitCols /\ [][NextCols]_vars

---------------------------------------------------------------------------
(* Properties                                                              *)

\* "currently being edited": the element has a status and it says editing
Edited(element) == MapHas(dataStatus, element) /\ MapGet(dataStatus, element).editing

\* C1: after ngOnChanges with a data change, dataStatus has exactly one entry
\* per element of data and no other, every entry is not editing and not
\* added, formControls is empty and currentlyAdding is false.
C1_DataChangeResetsRowStatus ==
  (op.name = "ngOnChanges" /\ op.dataChange) =>
     /\ MapKeys(dataStatus) = Range(data)
     /\ Cardinality(MapKeys(dataStatus)) = Len(dataStatus)
     /\ \A i \in 1..Len(dataStatus) :
          dataStatus[i][2].editing = FALSE /\ dataStatus[i][2].added = FALSE
     /\ formControls = <<>>
     /\ currentlyAdding = FALSE

\* C1 witness: a data change arrived while an element was being added, a row
\* was being edited and a form control existed.
C1_Witness ==
  /\ op.name = "ngOnChanges" /\ op.dataChange
  /\ op.preAdding /\ op.preEditing /\ op.preControls
  /\ data # <<>>

\* C7: every element of data has an entry in dataStatus.
C7_StatusCoversData == Range(data) \subseteq MapKeys(dataStatus)

\* C7 witness: an element was added by the component and has a status.
C7_Witness ==
  /\ op.name = "startAddElement" /\ ~op.threw
  /\ op.obj \in Range(data)
  /\ MapHas(dataStatus, op.obj)
  /\ Len(data) > 1

\* C10: no element the host supplied in data is ever removed from data by
\* the component.
C10_HostElementsStay == hostData \subseteq Range(data)

\* C6: ngOnInit raises an error exactly when addable is true and no create
\* function was supplied, and it changes no component state.
C6_InitErrorIffAddableWithoutCreate ==
  [][(op'.name = "ngOnInit") =>
       /\ op'.threw = (addable /\ ~create)
       /\ UNCHANGED compVars]_vars

\* C6 witness: ngOnInit raised its error on a table that already holds data.
C6_Witness == op.name = "ngOnInit" /\ op.threw /\ addable /\ ~create /\ data # <<>>

\* C8: onClick executes the column's onClick function exactly when the column
\* has one and either the click comes from a button of a button column or it
\* comes from a cell of a column that is no button column, on an element
\* that is not being edited.
C8_ClickFiresExactlyWhenClickable ==
  (op.name = "onClick") =>
     LET tcol == getDisplayedCols(columns)[op.col + 1]
         hasFn == "onClick" \in DOMAIN tcol
         isButton == "button" \in DOMAIN tcol /\ tcol["button"] = "true"
     IN op.fired <=>
          /\ hasFn
          /\ \/ op.fromButton /\ isButton
             \/ ~op.fromButton /\ ~isButton /\ ~Edited(op.obj)

\* C8 witness: a cell click on a row being edited, in a column that has an
\* onClick function and is no button column.
C8_Witness ==
  /\ op.name = "onClick" /\ ~op.fromButton /\ Edited(op.obj)
  /\ "onClick" \in DOMAIN getDisplayedCols(columns)[op.col + 1]
  /\ "button" \notin DOMAIN getDisplayedCols(columns)[op.col + 1]
  /\ ~op.fired

\* The value a new control of the cell must hold: init(value, element) when
\* the form field has an init function, the raw property value otherwise
InitialValue(tcol, element) ==
  IF tcol["formField"] \in {"ffInit", "ffBoth"}
  THEN InitFn(heap[element][tcol["property"]], element)
  ELSE heap[element][tcol["property"]]

\* The controls stored for exactly this row: ids '<rowIndex>_<c>'
ControlsOfRow(rowIndex) ==
  SelectSeq(formControls,
            LAMBDA entry : \E c \in 0..Len(columns) : entry[1] = ControlId(rowIndex, c))

\* C3: getFormControl creates a control, initialised from the element, only
\* when none is stored under '<rowIndex>_<colIndex>'; otherwise it returns the
\* stored control and leaves its value alone; two different cells never
\* share a control.
C3_OneControlPerCell ==
  [][/\ (op'.name = "getFormControl") =>
          LET id == ControlId(op'.row, op'.col)
              tcol == getDisplayedCols(columns)[op'.col + 1]
          IN IF MapHas(formControls, id)
             THEN /\ formControls' = formControls
                  /\ op'.ctl = MapGet(formControls, id).cid
             ELSE /\ Len(formControls') = Len(formControls) + 1
                  /\ SubSeq(formControls', 1, Len(formControls)) = formControls
                  /\ formControls'[Len(formControls')][1] = id
                  /\ formControls'[Len(formControls')][2].value = InitialValue(tcol, op'.obj)
                  /\ op'.ctl = formControls'[Len(formControls')][2].cid
     /\ (op'.name = "getFormControl") =>
          \A r \in 0..(BigRow + 1), c \in 0..Len(columns) :
             ControlId(r, c) = ControlId(op'.row, op'.col) => (r = op'.row /\ c = op'.col)
     /\ \A i, j \in 1..Len(formControls') :
          i # j => /\ formControls'[i][1] # formControls'[j][1]
                   /\ formControls'[i][2].cid # formControls'[j][2].cid]_vars

\* C3 witness: getFormControl returned the stored control of a cell whose
\* value the user had changed, while another cell has a control too.
C3_Witness ==
  /\ op.name = "getFormControl" /\ op.preControls
  /\ Len(formControls) = 2
  /\ MapGet(formControls, ControlId(op.row, op.col)).cid = op.ctl
  /\ MapGet(formControls, ControlId(op.row, op.col)).value #
       InitialValue(getDisplayedCols(columns)[op.col + 1], op.obj)

\* C4: the controls saveElement validates and reads are exactly the stored
\* controls whose id is '<rowIndex>_<c>' for some column index c.
C4_SaveTakesControlsOfRowOnly ==
  (op.name = "saveElement") =>
     op.ids = {ControlsOfRow(op.row)[i][1] : i \in 1..Len(ControlsOfRow(op.row))}

\* C5: saveElement changes no property of oldElement or of any other element
\* of data, and the element it emits is a different object from oldElement.
C5_SaveWritesIntoACopy ==
  [][(op'.name = "saveElement") =>
       /\ \A o \in Range(data) : heap'[o] = heap[o]
       /\ op'.emitted # NoObj => op'.emitted # op'.obj]_vars

\* C5 witness: an element was emitted whose values differ from those of the
\* element it was copied from.
C5_Witness ==
  /\ op.name = "saveElement" /\ op.emitted # NoObj
  /\ op.kind = "edit"
  /\ heap[op.emitted] # heap[op.obj]

\* The copy a successful save must emit: the properties that have a control
\* of this row set from the controls in turn, the others as in the original
RECURSIVE ExpectedCopy(_, _, _)
ExpectedCopy(rec, entries, dcols) ==
  IF entries = <<>> THEN rec
  ELSE LET tcol == dcols[ToNumber(SplitUnderscore(Head(entries)[1])[2]) + 1]
           prop == tcol["property"]
           val == Head(entries)[2].value
       IN ExpectedCopy(
            [rec EXCEPT ![prop] = IF tcol["formField"] \in {"ffApply", "ffBoth"}
                                  THEN ApplyFn(val, rec[prop], rec) ELSE val],
            Tail(entries), dcols)

\* C9: a new control holds init(value, element) or the raw value; a
\* successful save emits a copy in which each property that has a control of
\* the row is apply(controlValue, oldValue, copy) or the raw control value,
\* the column being the one at the control's index among the visible
\* columns, and every other property is that of the original element.
C9_InitAndApplyMediate ==
  /\ (op.name = "getFormControl" /\ ~op.preControls) =>
        MapGet(formControls, ControlId(op.row, op.col)).value =
          InitialValue(getDisplayedCols(columns)[op.col + 1], op.obj)
  /\ (op.name = "saveElement" /\ op.emitted # NoObj) =>
        heap[op.emitted] =
          ExpectedCopy(heap[op.obj], ControlsOfRow(op.row), getDisplayedCols(columns))

\* The ids of the currently visible columns, followed by 'actions' when the
\* table is editable, addable or deletable
VisibleIds ==
  LET vis == SelectSeq(columns, LAMBDA col : "visible" \in DOMAIN col /\ col["visible"] = "true")
      ids == [i \in 1..Len(vis) |->
                NumToString(i - 1) \o <<"_">> \o
                  <<IF "property" \in DOMAIN vis[i] THEN vis[i]["property"] ELSE "undefined">>]
  IN IF editable \/ addable \/ deletable THEN ids \o <<ActionsId>> ELSE ids

\* C2: when the host has changed the columns array since the previous
\* ngDoCheck, ngDoCheck detects a difference and rebuilds, and afterwards
\* displayedColumns corresponds exactly to the currently visible columns.
C2_ColumnChangeRebuilds ==
  (op.name = "ngDoCheck" /\ op.colsChanged) =>
     /\ op.detected
     /\ displayedColumns = VisibleIds

====
